---- MODULE Spec2Model ----
(***************************************************************************)
(* Model of app.py (Previsor de Gastos): the monthly_forecast routine and  *)
(* the Streamlit page script that calls it.                                *)
(*                                                                         *)
(* Numbers: Python floats are modelled as exact rationals <<n, d>> in      *)
(* lowest terms with d > 0.  Dates are records [y, m, d]; a pandas         *)
(* Timestamp additionally carries its time of day (ns since midnight).     *)
(***************************************************************************)
EXTENDS Integers, Sequences, FiniteSets, TLC

VARIABLES
    df,            \* the DataFrame passed to monthly_forecast: a sequence of rows
    months_ahead,  \* the months_ahead argument
    out,           \* outcome of the last call of monthly_forecast
    df0,           \* the DataFrame of the previous call
    out0,          \* outcome of the previous call
    fpc,           \* position of the caller of monthly_forecast
    session_state, \* st.session_state: key -> value
    dbUsers,       \* ids in the remote table "users"
    dbCategories,  \* rows of the remote table "categories"
    dbExpenses,    \* rows of the remote table "expenses"
    pc,            \* position of the page script in the current run
    clicked,       \* the button whose click triggered the current run
    rendered,      \* buttons rendered so far by the current run
    localUser,     \* the script's variable `user` (line 184)
    executed,      \* operations of the logged-in area executed in the current run
    period_df,     \* the script's variable `df` (line 233)
    runError       \* the uncaught exception that ended the run, or "none"

fvars == <<df, months_ahead, out, df0, out0, fpc>>

avars == <<session_state, dbUsers, dbCategories, dbExpenses, pc, clicked, rendered,
           localUser, executed, period_df, runError>>

vars == <<df, months_ahead, out, df0, out0, fpc,
          session_state, dbUsers, dbCategories, dbExpenses, pc, clicked, rendered,
          localUser, executed, period_df, runError>>

----------------------------------------------------------------------------
(* Bounds of the model *)

MaxRows == 3        \* rows of a DataFrame passed to monthly_forecast
MaxAhead == 3       \* largest months_ahead tried
MaxExpenses == 2    \* rows of the table "expenses"
MaxCategories == 2  \* rows of the table "categories"

Amounts == {0, 100, 250}

Dates == { [y |-> 2023, m |-> 11, d |-> 30],
           [y |-> 2023, m |-> 12, d |-> 1],
           [y |-> 2024, m |-> 1,  d |-> 15],
           [y |-> 2024, m |-> 2,  d |-> 29] }

Rows == [dt : Dates, amount : Amounts]

----------------------------------------------------------------------------
(* Float arithmetic, as exact rationals *)

Abs(x) == IF x < 0 THEN -x ELSE x

RECURSIVE GCD(_, _)
GCD(a, b) == IF b = 0 THEN a ELSE GCD(b, a % b)

Rat(n, d) ==
    LET g == GCD(Abs(n), Abs(d))
        s == IF d < 0 THEN -1 ELSE 1
    IN  <<(s * n) \div g, (s * d) \div g>>

Float(i) == <<i, 1>>

FAdd(p, q) == Rat(p[1] * q[2] + q[1] * p[2], p[2] * q[2])

FSub(p, q) == Rat(p[1] * q[2] - q[1] * p[2], p[2] * q[2])

FMul(p, q) == Rat(p[1] * q[1], p[2] * q[2])

FDiv(p, q) == Rat(p[1] * q[2], p[2] * q[1])

RECURSIVE FSum(_)
FSum(xs) == IF xs = <<>> THEN Float(0) ELSE FAdd(FSum(SubSeq(xs, 1, Len(xs) - 1)), xs[Len(xs)])

Mean(xs) == FDiv(FSum(xs), Float(Len(xs)))

\* np.nan: the quotient 0/0
NaN == <<0, 0>>

----------------------------------------------------------------------------
(* Dates and Timestamps *)

Timestamp(d) == [y |-> d.y, m |-> d.m, d |-> d.d, ns |-> 0]

ToDate(ts) == [y |-> ts.y, m |-> ts.m, d |-> ts.d]

TsLess(s, t) ==
    \/ s.y < t.y
    \/ s.y = t.y /\ s.m < t.m
    \/ s.y = t.y /\ s.m = t.m /\ s.d < t.d
    \/ s.y = t.y /\ s.m = t.m /\ s.d = t.d /\ s.ns < t.ns

MonthStart(ts) == [y |-> ts.y, m |-> ts.m, d |-> 1, ns |-> 0]

MonthBegin(ts) ==
    IF ts.m = 12 THEN [y |-> ts.y + 1, m |-> 1, d |-> 1, ns |-> 0]
                 ELSE [y |-> ts.y, m |-> ts.m + 1, d |-> 1, ns |-> 0]

RECURSIVE date_range(_, _)
date_range(start, periods) ==
    IF periods <= 0 THEN <<>>
    ELSE <<start>> \o date_range(MonthBegin(start), periods - 1)

RECURSIVE MonthsBetween(_, _)
MonthsBetween(first, last) ==
    IF TsLess(last, first) THEN <<>>
    ELSE <<first>> \o MonthsBetween(MonthBegin(first), last)

----------------------------------------------------------------------------
(* pandas / numpy operations used by monthly_forecast *)

\* df["dt"], df["amount"]: a column of a DataFrame is a Series
Column(frame, name) ==
    [kind |-> "Series", values |-> [i \in DOMAIN frame |-> frame[i][name]]]

\* pd.to_datetime keeps the container it is given: a Series gives a Series
to_datetime(col) ==
    [kind |-> col.kind, values |-> [i \in DOMAIN col.values |-> Timestamp(col.values[i])]]

\* .to_series is a method of Index objects only; on a Series (the object whose
\* .dt accessor line 81 uses) the attribute lookup raises AttributeError
HasToSeries(obj) == obj.kind = "DatetimeIndex"

\* pd.DataFrame({"dt": s, "amount": values}).set_index("dt")["amount"]
AmountByDt(s, amounts) ==
    [i \in DOMAIN s.values |-> [dt |-> s.values[i], amount |-> Float(amounts.values[i])]]

MinDt(ts) == CHOOSE x \in {ts[i].dt : i \in DOMAIN ts} :
                 \A i \in DOMAIN ts : ~TsLess(ts[i].dt, x)

MaxDt(ts) == CHOOSE x \in {ts[i].dt : i \in DOMAIN ts} :
                 \A i \in DOMAIN ts : ~TsLess(x, ts[i].dt)

RECURSIVE SumIn(_, _)
SumIn(ts, bin) ==
    IF ts = <<>> THEN Float(0)
    ELSE LET n == Len(ts)
             rest == SumIn(SubSeq(ts, 1, n - 1), bin)
         IN  IF MonthStart(ts[n].dt) = bin THEN FAdd(rest, ts[n].amount) ELSE rest

\* ts.resample("MS").sum().rename("actual").asfreq("MS", fill_value=0.0)
resample_sum(ts) ==
    LET bins == MonthsBetween(MonthStart(MinDt(ts)), MonthStart(MaxDt(ts)))
    IN  [index |-> bins, values |-> [i \in DOMAIN bins |-> SumIn(ts, bins[i])]]

\* np.arange(lo, hi)
arange(lo, hi) == [i \in 1..(IF hi > lo THEN hi - lo ELSE 0) |-> lo + i - 1]

RECURSIVE Dot(_, _)
Dot(xs, ys) ==
    IF xs = <<>> THEN Float(0)
    ELSE LET n == Len(xs)
         IN  FAdd(Dot(SubSeq(xs, 1, n - 1), SubSeq(ys, 1, n - 1)), FMul(xs[n], ys[n]))

\* np.linalg.lstsq(A, y, rcond=None)[0] for A = [t, 1]: the least-squares
\* line; for a single row A = [[0, 1]] has rank 1 and the minimum-norm
\* solution is a = 0, b = y[0]
lstsq(t, y) ==
    LET n   == Len(t)
        tf  == [i \in DOMAIN t |-> Float(t[i])]
        one == [i \in DOMAIN t |-> Float(1)]
        St  == Dot(tf, one)
        Sy  == Dot(y, one)
        Stt == Dot(tf, tf)
        Sty == Dot(tf, y)
        det == FSub(FMul(Float(n), Stt), FMul(St, St))
    IN  IF det = Float(0) THEN <<Float(0), FDiv(Sy, Float(n))>>
        ELSE LET a == FDiv(FSub(FMul(Float(n), Sty), FMul(St, Sy)), det)
             IN  <<a, FDiv(FSub(Sy, FMul(a, St)), Float(n))>>

Window == 3

\* ts.rolling(window=3, min_periods=1).mean().values
rolling_mean(y) ==
    [i \in DOMAIN y |-> Mean(SubSeq(y, IF i - Window + 1 < 1 THEN 1 ELSE i - Window + 1, i))]

TailLen == 3

\* ts.tail(3).mean()
tail_mean(y) ==
    Mean(SubSeq(y, IF Len(y) - TailLen + 1 < 1 THEN 1 ELSE Len(y) - TailLen + 1, Len(y)))

TrendWeight == <<3, 5>>

AverageWeight == <<2, 5>>

Blend(trend, ma) == FAdd(FMul(TrendWeight, trend), FMul(AverageWeight, ma))

----------------------------------------------------------------------------
(* monthly_forecast *)

Returned(rows) == [status |-> "ok", rows |-> rows]

Raised(exc) == [status |-> exc, rows |-> <<>>]

\* lines 117-140: from the series s of timestamps to the output frame
ForecastFrom(s, amounts, ahead) ==
    LET ts       == resample_sum(AmountByDt(s, amounts))
        n        == Len(ts.values)
        t        == arange(0, n)
        ab       == lstsq(t, ts.values)
        a        == ab[1]
        b        == ab[2]
        trend    == [i \in DOMAIN t |-> FAdd(FMul(a, Float(t[i])), b)]
        ma       == rolling_mean(ts.values)
        fitted   == [i \in DOMAIN t |-> Blend(trend[i], ma[i])]
        last_t   == t[n]
        future_idx == date_range(MonthBegin(ts.index[n]), ahead)
        future_t == arange(last_t + 1, last_t + 1 + ahead)
        future_trend == [i \in DOMAIN future_t |-> FAdd(FMul(a, Float(future_t[i])), b)]
        future_ma == [i \in DOMAIN future_t |-> tail_mean(ts.values)]
        future_forecast == [i \in DOMAIN future_t |-> Blend(future_trend[i], future_ma[i])]
        hist     == [i \in DOMAIN t |->
                        [month |-> ToDate(ts.index[i]), actual |-> ts.values[i],
                         forecast |-> fitted[i]]]
        future   == [i \in DOMAIN future_t |->
                        [month |-> ToDate(future_idx[i]), actual |-> NaN,
                         forecast |-> future_forecast[i]]]
    IN  Returned(hist \o future)

Empty_never(frame) == FALSE

\* df.empty
Empty(frame) == Len(frame) = 0

monthly_forecast(frame, ahead) ==
    IF Empty(frame) THEN Returned(<<>>)
    ELSE LET s == to_datetime(Column(frame, "dt"))
         IN  IF ~HasToSeries(s) THEN Raised("AttributeError")
             ELSE ForecastFrom(s, Column(frame, "amount"), ahead)

----------------------------------------------------------------------------
(* Callers of monthly_forecast with arbitrary arguments *)

RECURSIVE SeqsUpTo(_, _)
SeqsUpTo(S, n) ==
    IF n = 0 THEN {<<>>}
    ELSE LET shorter == SeqsUpTo(S, n - 1)
         IN  shorter \cup {Append(q, x) : q \in shorter, x \in S}

NotCalled == [status |-> "not called", rows |-> <<>>]

None == "None"

\* the reorderings of the indices 1..n
Orderings(n) == {f \in [1..n -> 1..n] : \A i, j \in 1..n : i # j => f[i] # f[j]}

AppInit ==
    /\ session_state = [k \in {} |-> None]
    /\ dbUsers = {}
    /\ dbCategories = <<>>
    /\ dbExpenses = <<>>
    /\ pc = "idle"
    /\ clicked = "none"
    /\ rendered = {}
    /\ localUser = None
    /\ executed = {}
    /\ period_df = <<>>
    /\ runError = "none"

Init ==
    /\ df \in SeqsUpTo(Rows, MaxRows)
    /\ months_ahead \in 0..MaxAhead
    /\ out = NotCalled
    /\ df0 = <<>>
    /\ out0 = NotCalled
    /\ fpc = "idle"
    /\ AppInit

\* forecast_df = monthly_forecast(df, months_ahead)
Call ==
    /\ fpc \in {"idle", "shuffled"}
    /\ out' = monthly_forecast(df, months_ahead)
    /\ fpc' = IF fpc = "idle" THEN "returned" ELSE "returned again"
    /\ UNCHANGED <<df, months_ahead, df0, out0>>
    /\ UNCHANGED avars

\* the caller reorders the records and keeps the first outcome for comparison
Shuffle ==
    /\ fpc = "returned"
    /\ \E f \in Orderings(Len(df)) : df' = [i \in DOMAIN df |-> df[f[i]]]
    /\ df0' = df
    /\ out0' = out
    /\ fpc' = "shuffled"
    /\ UNCHANGED <<months_ahead, out>>
    /\ UNCHANGED avars

Next == Call \/ Shuffle

Spec == Init /\ [][Next]_vars

----------------------------------------------------------------------------
(* Properties of monthly_forecast *)

\* out is the outcome of monthly_forecast(df, months_ahead)
Called == fpc \in {"returned", "returned again"}

MonthNo(d) == d.y * 12 + d.m - 1

FirstNo(frame) == CHOOSE k \in {MonthNo(frame[i].dt) : i \in DOMAIN frame} :
                      \A i \in DOMAIN frame : k <= MonthNo(frame[i].dt)

LastNo(frame) == CHOOSE k \in {MonthNo(frame[i].dt) : i \in DOMAIN frame} :
                     \A i \in DOMAIN frame : k >= MonthNo(frame[i].dt)

Historical(rows) == {i \in DOMAIN rows : rows[i].actual # NaN}

Future(rows) == {i \in DOMAIN rows : rows[i].actual = NaN}

RECURSIVE TotalOf(_, _)
TotalOf(frame, k) ==
    IF frame = <<>> THEN 0
    ELSE (IF MonthNo(Head(frame).dt) = k THEN Head(frame).amount ELSE 0)
         + TotalOf(Tail(frame), k)

\* the trailing mean of the actual values at positions max(1, i-2)..i
TrailingMean(rows, i) ==
    LET lo == IF i - 2 < 1 THEN 1 ELSE i - 2
    IN  Mean([j \in 1..(i - lo + 1) |-> rows[lo + j - 1].actual])

\* the trend value that the forecast of historical row i blends with its
\* trailing mean: (forecast - 0.4 * MA) / 0.6
TrendAt(rows, i) ==
    FDiv(FSub(rows[i].forecast, FMul(<<2, 5>>, TrailingMean(rows, i))), <<3, 5>>)

\* the trend values are those of the least-squares line over the actual
\* values: they lie on one line and satisfy the normal equations
LeastSquares(rows, n) ==
    /\ \A i \in 1..(n - 2) :
          FSub(TrendAt(rows, i + 1), TrendAt(rows, i))
            = FSub(TrendAt(rows, i + 2), TrendAt(rows, i + 1))
    /\ FSum([i \in 1..n |-> FSub(rows[i].actual, TrendAt(rows, i))]) = Float(0)
    /\ FSum([i \in 1..n |-> FMul(Float(i - 1), FSub(rows[i].actual, TrendAt(rows, i)))])
         = Float(0)

\* slope of the fitted line: 0 for a single month
SlopeOf(rows, n) ==
    IF n < 2 THEN Float(0) ELSE FSub(TrendAt(rows, 2), TrendAt(rows, 1))

\* C1: for non-empty records the output months are first-of-month dates, each
\* the calendar month after the previous one, starting at the earliest observed
\* month; there are (latest - earliest) + 1 historical points and months_ahead
\* future points.
C1_Contiguous ==
    (Called /\ df # <<>>) =>
        /\ out.status = "ok"
        /\ \A i \in DOMAIN out.rows :
              /\ out.rows[i].month.d = 1
              /\ out.rows[i].month.m \in 1..12
              /\ MonthNo(out.rows[i].month) = FirstNo(df) + i - 1
        /\ Cardinality(Historical(out.rows)) = LastNo(df) - FirstNo(df) + 1
        /\ Cardinality(Future(out.rows)) = months_ahead

\* C2: the actual value of each historical point is the sum of the amounts of
\* the records of that calendar month, and every month from the earliest to the
\* latest observed month is present (with 0 when it has no record).
C2_MonthlyTotals ==
    (Called /\ df # <<>>) =>
        /\ out.status = "ok"
        /\ \A i \in Historical(out.rows) :
              out.rows[i].actual = Float(TotalOf(df, MonthNo(out.rows[i].month)))
        /\ \A k \in FirstNo(df)..LastNo(df) :
              \E i \in Historical(out.rows) : MonthNo(out.rows[i].month) = k

\* C3: the forecast of the k-th future month is 0.6 * (a*(N-1+k) + b) + 0.4 * M,
\* M the mean of the last 3 actual values, the same for every future month.
C3_FutureForecast ==
    (Called /\ df # <<>>) =>
        /\ out.status = "ok"
        /\ LET rows == out.rows
               n == LastNo(df) - FirstNo(df) + 1
           IN  \A k \in 1..months_ahead :
                  /\ n + k \in DOMAIN rows
                  /\ rows[n + k].forecast =
                       FAdd(FMul(<<3, 5>>,
                                 FAdd(TrendAt(rows, n), FMul(Float(k), SlopeOf(rows, n)))),
                            FMul(<<2, 5>>, TrailingMean(rows, n)))

\* C4: the forecast of the historical point at position t is
\* 0.6 * (a*t + b) + 0.4 * MA(t) with a, b the least-squares line and MA the
\* trailing mean of up to 3 actual values; the actual value stands beside it.
C4_FittedValues ==
    (Called /\ df # <<>>) =>
        /\ out.status = "ok"
        /\ LET n == LastNo(df) - FirstNo(df) + 1
           IN  /\ Len(out.rows) >= n
               /\ \A i \in 1..n :
                     out.rows[i].actual = Float(TotalOf(df, FirstNo(df) + i - 1))
               /\ LeastSquares(out.rows, n)

\* C5: records of a single calendar month with total T give 1 + months_ahead
\* points: the first with actual T and forecast T, the others with actual
\* absent and forecast T.
C5_SingleMonth ==
    (Called /\ df # <<>> /\ FirstNo(df) = LastNo(df)) =>
        /\ out.status = "ok"
        /\ LET T == Float(TotalOf(df, FirstNo(df)))
           IN  /\ Len(out.rows) = 1 + months_ahead
               /\ out.rows[1].actual = T
               /\ out.rows[1].forecast = T
               /\ \A i \in 2..Len(out.rows) :
                     out.rows[i].actual = NaN /\ out.rows[i].forecast = T

\* C6: the output for a reordering of the records is the output for the
\* original records.
C6_OrderIndependent ==
    (fpc = "returned again") => (out.status = "ok" /\ out0.status = "ok" /\ out = out0)

\* C7: with months_ahead = 0 and non-empty records only historical points are
\* returned, each with actual and forecast populated.
C7_NoFutureRows ==
    (Called /\ df # <<>> /\ months_ahead = 0) =>
        /\ out.status = "ok"
        /\ out.rows # <<>>
        /\ \A i \in DOMAIN out.rows :
              /\ out.rows[i].actual # NaN
              /\ out.rows[i].forecast # NaN
              /\ MonthNo(out.rows[i].month) <= LastNo(df)

\* C8: an empty collection of records gives an empty sequence and no error,
\* whatever months_ahead is.
C8_EmptyInput ==
    (Called /\ df = <<>>) => (out.status = "ok" /\ out.rows = <<>>)

C8_Witness == Called /\ df = <<>> /\ months_ahead = 3 /\ out.status = "ok"

----------------------------------------------------------------------------
(* The page script: remote tables and session *)

Users == {"u1", "u2"}

NewCatInputs == {"", " ", "Casa"}

ExpenseDates == { [y |-> 2023, m |-> 12, d |-> 1], [y |-> 2024, m |-> 1, d |-> 15] }

ExpenseAmounts == {100}

DefaultMonthsAhead == 3

\* date.isoformat(): "YYYY-MM-DD", ordered as the triple <<year, month, day>>
isoformat(d) == <<d.y, d.m, d.d>>

\* pd.to_datetime(df["dt"]).dt.date
FromIso(str) == ToDate(Timestamp([y |-> str[1], m |-> str[2], d |-> str[3]]))

IsoLeq(p, q) ==
    \/ p[1] < q[1]
    \/ p[1] = q[1] /\ p[2] < q[2]
    \/ p[1] = q[1] /\ p[2] = q[2] /\ p[3] <= q[3]

\* str.strip() on the inputs tried
strip(str) == IF str = " " THEN "" ELSE str

ensure_session_state(ss) ==
    [k \in DOMAIN ss \cup {"user", "categories", "expenses"} |->
        IF k \in DOMAIN ss THEN ss[k] ELSE None]

fetch_categories(table, user_id) ==
    SelectSeq(table, LAMBDA r : r.user_id = user_id)

RECURSIVE OrderByDt(_)
OrderByDt(rows) ==
    IF rows = <<>> THEN <<>>
    ELSE LET n == Len(rows)
             sorted == OrderByDt(SubSeq(rows, 1, n - 1))
             before == SelectSeq(sorted, LAMBDA r : IsoLeq(r.dt, rows[n].dt))
             after  == SelectSeq(sorted, LAMBDA r : ~IsoLeq(r.dt, rows[n].dt))
         IN  before \o <<rows[n]>> \o after

\* start, end: <<>> for None, <<d>> for the date d
fetch_expenses(table, user_id, start, end) ==
    LET mine   == SelectSeq(table, LAMBDA r : r.user_id = user_id)
        ranged == SelectSeq(mine, LAMBDA r :
                      /\ start # <<>> => IsoLeq(isoformat(start[1]), r.dt)
                      /\ end # <<>> => IsoLeq(r.dt, isoformat(end[1])))
        data   == OrderByDt(ranged)
    IN  [i \in DOMAIN data |-> [data[i] EXCEPT !.dt = FromIso(data[i].dt)]]

add_category(table, user_id, name) ==
    Append(table, [id |-> Len(table) + 1, user_id |-> user_id, name |-> name])

add_expense(table, user_id, dt, category_id, amount) ==
    Append(table, [user_id |-> user_id, dt |-> isoformat(dt),
                   category_id |-> category_id, amount |-> amount])

\* {row["name"]: row["id"] for _, row in categories.iterrows()}: a later row
\* replaces an earlier one of the same name
cat_options(cats) ==
    [name \in {cats[i].name : i \in DOMAIN cats} |->
        LET last == CHOOSE i \in DOMAIN cats :
                        /\ cats[i].name = name
                        /\ \A j \in DOMAIN cats : cats[j].name = name => j <= i
        IN  cats[last].id]

st_rerun_ignored(fallthrough) == fallthrough

\* st.rerun(): the run is abandoned and the script runs again from the top
st_rerun(fallthrough) == "rerun"

\* st.stop(): the run ends here
st_stop == "idle"

Did(op) == [op |-> op, user |-> session_state.user]

----------------------------------------------------------------------------
(* The page script: one run, step by step *)

\* a widget interaction (or the first page load) starts a run
Interact ==
    /\ pc = "idle"
    /\ \E c \in rendered \cup {"none"} :
          /\ c = "Salvar" => Len(dbExpenses) < MaxExpenses
          /\ c = "Adicionar" => Len(dbCategories) < MaxCategories
          /\ clicked' = c
    /\ pc' = "start"
    /\ rendered' = {}
    /\ executed' = {}
    /\ localUser' = None
    /\ period_df' = <<>>
    /\ runError' = "none"
    /\ UNCHANGED <<session_state, dbUsers, dbCategories, dbExpenses>>
    /\ UNCHANGED fvars

\* the run requested by st.rerun()
Rerun ==
    /\ pc = "rerun"
    /\ clicked' = "none"
    /\ pc' = "start"
    /\ rendered' = {}
    /\ executed' = {}
    /\ localUser' = None
    /\ period_df' = <<>>
    /\ runError' = "none"
    /\ UNCHANGED <<session_state, dbUsers, dbCategories, dbExpenses>>
    /\ UNCHANGED fvars

\* lines 146-149
ScriptStart ==
    /\ pc = "start"
    /\ session_state' = ensure_session_state(session_state)
    /\ pc' = IF session_state'.user = None THEN "login" ELSE "logged"
    /\ UNCHANGED <<dbUsers, dbCategories, dbExpenses, clicked, rendered, localUser,
                   executed, runError>>
    /\ UNCHANGED <<fvars, period_df>>

\* lines 153-163: the tab "Entrar"
LoginEntrar ==
    /\ pc = "login"
    /\ clicked = "Entrar"
    /\ \/ \E u \in Users :
             /\ session_state' = [session_state EXCEPT !.user = u]
             /\ pc' = st_rerun(st_stop)
       \/ /\ pc' = st_stop
          /\ UNCHANGED session_state
    /\ rendered' = {"Entrar", "Criar conta"}
    /\ UNCHANGED <<dbUsers, dbCategories, dbExpenses, clicked, localUser, executed, runError>>
    /\ UNCHANGED <<fvars, period_df>>

\* lines 165-179: the tab "Criar conta"
LoginCriarConta ==
    /\ pc = "login"
    /\ clicked = "Criar conta"
    /\ \/ \* pw1 != pw2
          /\ pc' = st_stop
          /\ UNCHANGED <<session_state, dbUsers, dbCategories>>
       \/ \* sign_up returns a user: both inserts are made
          /\ Len(dbCategories) < MaxCategories
          /\ \E u \in Users :
                /\ dbUsers' = dbUsers \cup {u}
                /\ dbCategories' = add_category(dbCategories, u, "Geral")
                /\ session_state' = [session_state EXCEPT !.user = u]
          /\ pc' = st_rerun(st_stop)
       \/ \* sign_up returns no user: nothing is inserted
          /\ session_state' = [session_state EXCEPT !.user = None]
          /\ pc' = st_rerun(st_stop)
          /\ UNCHANGED <<dbUsers, dbCategories>>
       \/ \* supabase.auth.sign_up or the first insert raises
          /\ pc' = st_stop
          /\ UNCHANGED <<session_state, dbUsers, dbCategories>>
       \/ \* the second insert raises
          /\ \E u \in Users : dbUsers' = dbUsers \cup {u}
          /\ pc' = st_stop
          /\ UNCHANGED <<session_state, dbCategories>>
    /\ rendered' = {"Entrar", "Criar conta"}
    /\ UNCHANGED <<dbExpenses, clicked, localUser, executed, runError>>
    /\ UNCHANGED <<fvars, period_df>>

\* lines 150-181 when no button of the page was clicked
LoginIdle ==
    /\ pc = "login"
    /\ clicked \notin {"Entrar", "Criar conta"}
    /\ pc' = st_stop
    /\ rendered' = {"Entrar", "Criar conta"}
    /\ UNCHANGED <<session_state, dbUsers, dbCategories, dbExpenses, clicked, localUser,
                   executed, runError>>
    /\ UNCHANGED <<fvars, period_df>>

\* lines 184-188
Sair ==
    /\ pc = "logged"
    /\ localUser' = session_state.user
    /\ rendered' = rendered \cup {"Sair"}
    /\ IF clicked = "Sair"
       THEN \/ \* sign_out
               /\ session_state' = [session_state EXCEPT !.user = None]
               /\ pc' = st_rerun("load_categories")
               /\ UNCHANGED runError
            \/ \* supabase.auth.sign_out raises
               /\ runError' = "AuthError"
               /\ pc' = "idle"
               /\ UNCHANGED session_state
       ELSE /\ pc' = "load_categories"
            /\ UNCHANGED <<session_state, runError>>
    /\ UNCHANGED <<dbUsers, dbCategories, dbExpenses, clicked, executed>>
    /\ UNCHANGED <<fvars, period_df>>

\* lines 191-193
LoadCategories ==
    /\ pc = "load_categories"
    /\ IF localUser = None
       THEN /\ runError' = "AttributeError"
            /\ pc' = "idle"
            /\ UNCHANGED <<session_state, executed>>
       ELSE /\ session_state' = [session_state EXCEPT
                                    !.categories = fetch_categories(dbCategories, localUser)]
            /\ executed' = executed \cup {Did("fetch_categories")}
            /\ pc' = "categories"
            /\ UNCHANGED runError
    /\ UNCHANGED <<dbUsers, dbCategories, dbExpenses, clicked, rendered, localUser>>
    /\ UNCHANGED <<fvars, period_df>>

\* lines 195-206
Categorias ==
    /\ pc = "categories"
    /\ rendered' = rendered \cup {"Adicionar"}
    /\ \E new_cat \in NewCatInputs :
          IF clicked = "Adicionar" /\ strip(new_cat) # ""
          THEN /\ Len(dbCategories) < MaxCategories
               /\ dbCategories' = add_category(dbCategories, localUser, strip(new_cat))
               /\ session_state' = [session_state EXCEPT
                                       !.categories = fetch_categories(dbCategories', localUser)]
               /\ executed' = executed \cup {Did("add_category"), Did("fetch_categories")}
               /\ pc' = st_rerun("expense_form")
          ELSE /\ pc' = "expense_form"
               /\ UNCHANGED <<dbCategories, session_state, executed>>
    /\ UNCHANGED <<dbUsers, dbExpenses, clicked, localUser, runError>>
    /\ UNCHANGED <<fvars, period_df>>

\* lines 209-229
LancarGasto ==
    /\ pc = "expense_form"
    /\ rendered' = rendered \cup {"Salvar"}
    /\ LET options == cat_options(session_state.categories)
       IN  IF clicked = "Salvar" /\ DOMAIN options # {}
           THEN /\ Len(dbExpenses) < MaxExpenses
                /\ \E dt \in ExpenseDates, cat \in DOMAIN options, amount \in ExpenseAmounts :
                      dbExpenses' = add_expense(dbExpenses, localUser, dt, options[cat], amount)
                /\ executed' = executed \cup {Did("add_expense")}
           ELSE UNCHANGED <<dbExpenses, executed>>
    /\ pc' = "list"
    /\ UNCHANGED <<session_state, dbUsers, dbCategories, clicked, localUser, runError>>
    /\ UNCHANGED <<fvars, period_df>>

\* lines 232-249
DespesasNoPeriodo ==
    /\ pc = "list"
    /\ \E start_date \in ExpenseDates, end_date \in ExpenseDates :
          period_df' = fetch_expenses(dbExpenses, localUser, <<start_date>>, <<end_date>>)
    /\ executed' = executed \cup {Did("fetch_expenses")}
    /\ pc' = "forecast"
    /\ UNCHANGED <<session_state, dbUsers, dbCategories, dbExpenses, clicked, rendered,
                   localUser, runError>>
    /\ UNCHANGED fvars

\* lines 252-263
Previsao ==
    /\ pc = "forecast"
    /\ LET hist == fetch_expenses(dbExpenses, localUser, <<>>, <<>>)
           forecast_df == monthly_forecast(hist, DefaultMonthsAhead)
       IN  runError' = IF forecast_df.status = "ok" THEN "none" ELSE forecast_df.status
    /\ executed' = executed \cup {Did("fetch_expenses"), Did("monthly_forecast")}
    /\ pc' = "idle"
    /\ UNCHANGED <<session_state, dbUsers, dbCategories, dbExpenses, clicked, rendered,
                   localUser>>
    /\ UNCHANGED <<fvars, period_df>>

AppNext ==
    \/ Interact \/ Rerun \/ ScriptStart
    \/ LoginEntrar \/ LoginCriarConta \/ LoginIdle
    \/ Sair \/ LoadCategories \/ Categorias \/ LancarGasto \/ DespesasNoPeriodo \/ Previsao

InitApp ==
    /\ df = <<>>
    /\ months_ahead = DefaultMonthsAhead
    /\ out = NotCalled
    /\ df0 = <<>>
    /\ out0 = NotCalled
    /\ fpc = "idle"
    /\ AppInit

SpecApp == InitApp /\ [][AppNext]_vars

LoggedArea == {"load_categories", "categories", "expense_form", "list", "forecast"}

\* C10: the operations of the logged-in area are executed only while
\* st.session_state.user is not None: the script is in the logged-in area
\* only with a user, and every operation executed in the run saw a user.
C10_LoggedInOnly ==
    /\ pc \in LoggedArea => session_state.user # None
    /\ \A e \in executed : e.user # None

\* a whole run of the logged-in area has executed its operations, the forecast
\* included
C10_Witness ==
    /\ pc = "idle"
    /\ {e.op : e \in executed} = {"fetch_categories", "add_expense", "fetch_expenses",
                                  "monthly_forecast"}
    /\ "user" \in DOMAIN session_state
    /\ session_state.user # None

====
